---------------------------- MODULE Spec2Model ----------------------------
(***************************************************************************)
(* A model of the function plotter of src/src/main.rs: the curve record    *)
(* FunctionPlot and its refresh FunctionPlot::update, the application      *)
(* state App with App::update_functions, and the per-frame handler         *)
(* <App as eframe::App>::update.                                           *)
(*                                                                         *)
(* f64 values are modelled on a grid: the finite values are the integers   *)
(* of -MaxFinite..MaxFinite, and there are the three IEEE-754 special      *)
(* values NaN, +infinity and -infinity.  An operation computes the exact   *)
(* result, rounds it to the grid (towards zero) and overflows to an        *)
(* infinity beyond MaxFinite; the special values follow IEEE-754.          *)
(***************************************************************************)
EXTENDS Integers, Sequences, FiniteSets, TLC

\* ------------------------------------------------------------------ bounds

\* The largest finite value of the f64 grid.
MaxFinite == 1000000
\* The largest sample count the function-level specifications draw.
MaxN == 2
\* The number of curves above which Add Function is no longer clicked.
MaxCurves == 3
\* The number of frames a behaviour of the application runs.
MaxFrames == 2
\* The number of edits between the refreshes of SpecRefresh.
MaxEdits == 2

\* ------------------------------------------------------- program constants

\* App::default: num_points.
DefaultNumPoints == 1000
\* The range of the Sample Points slider.
SliderMin == 100
SliderMax == 5000

\* --------------------------------------------------------------------- f64

NaN == [k |-> "nan", v |-> 0]
PosInf == [k |-> "inf", v |-> 1]
NegInf == [k |-> "inf", v |-> -1]

\* The grid value of the exact result n: overflow gives an infinity.
Fin(n) ==
    IF n > MaxFinite THEN PosInf
    ELSE IF n < -MaxFinite THEN NegInf
    ELSE [k |-> "fin", v |-> n]

\* f64::is_finite
is_finite(a) == a.k = "fin"

Sgn(n) == IF n > 0 THEN 1 ELSE IF n < 0 THEN -1 ELSE 0

Abs(n) == IF n < 0 THEN -n ELSE n

\* a + b
FAdd(a, b) ==
    IF a.k = "nan" \/ b.k = "nan" THEN NaN
    ELSE IF a.k = "inf" THEN (IF b.k = "inf" /\ b.v # a.v THEN NaN ELSE a)
    ELSE IF b.k = "inf" THEN b
    ELSE Fin(a.v + b.v)

\* a - b
FSub(a, b) ==
    IF b.k = "nan" THEN NaN ELSE FAdd(a, [k |-> b.k, v |-> -b.v])

\* a * b
FMul(a, b) ==
    IF a.k = "nan" \/ b.k = "nan" THEN NaN
    ELSE IF a.k = "inf" \/ b.k = "inf" THEN
        (IF Sgn(a.v) * Sgn(b.v) = 0 THEN NaN
         ELSE [k |-> "inf", v |-> Sgn(a.v) * Sgn(b.v)])
    ELSE Fin(a.v * b.v)

\* a / b: a finite value over zero is an infinity, 0/0 and inf/inf are NaN.
FDiv(a, b) ==
    IF a.k = "nan" \/ b.k = "nan" THEN NaN
    ELSE IF a.k = "inf" THEN
        (IF b.k = "inf" THEN NaN
         ELSE [k |-> "inf", v |-> a.v * (IF b.v < 0 THEN -1 ELSE 1)])
    ELSE IF b.k = "inf" THEN Fin(0)
    ELSE IF b.v = 0 THEN
        (IF a.v = 0 THEN NaN ELSE [k |-> "inf", v |-> Sgn(a.v)])
    ELSE Fin(Sgn(a.v) * Sgn(b.v) * (Abs(a.v) \div Abs(b.v)))

\* a < b: false when either side is NaN.
FLt(a, b) ==
    /\ a.k # "nan"
    /\ b.k # "nan"
    /\ IF a.k = "inf" THEN a.v < 0 /\ b # a
       ELSE IF b.k = "inf" THEN b.v > 0
       ELSE a.v < b.v

\* a >= b: false when either side is NaN.
FGe(a, b) ==
    /\ a.k # "nan"
    /\ b.k # "nan"
    /\ ~FLt(a, b)

\* ------------------------------------------------- the expression library

\* The expression texts of the model: the two defaults of App::default, the
\* text of a new curve ("x"), a constant, a function with a pole, a text that
\* does not parse and a text with an unbound variable.
ExprTexts ==
    {"abs(ln(x-1)/ln(x-2))", "sin(x)", "x", "1", "1/x", "sin(", "y"}

\* meval::Expr::from_str succeeds: "sin(" ends where an argument is expected.
ParseOk(text) == text # "sin("

\* Expr::bind("x") succeeds: "y" holds a variable that is not x.
BindOk(text) == text # "y"

\* The logarithm of n >= 1 on the grid: 0 exactly at 1, rounded up elsewhere.
RECURSIVE ILn(_)
ILn(n) == IF n <= 1 THEN 0 ELSE 1 + ILn((n + 2) \div 3)

\* ln: NaN below zero, -infinity at zero.
FLn(a) ==
    IF a.k = "nan" THEN NaN
    ELSE IF a.k = "inf" THEN (IF a.v > 0 THEN PosInf ELSE NaN)
    ELSE IF a.v < 0 THEN NaN
    ELSE IF a.v = 0 THEN NegInf
    ELSE Fin(ILn(a.v))

\* abs
FAbs(a) ==
    IF a.k = "nan" THEN NaN ELSE [k |-> a.k, v |-> Abs(a.v)]

\* sin: NaN at the infinities; on the grid, the sine rounded to an integer
\* (period 6 standing for 2 pi).
FSin(a) ==
    IF a.k # "fin" THEN NaN
    ELSE LET r == Abs(a.v) % 6
             s == IF r \in {1, 2} THEN 1 ELSE IF r \in {4, 5} THEN -1 ELSE 0
         IN Fin(Sgn(a.v) * s)

\* The bound function of an expression text applied to x.
Eval(text, x) ==
    CASE text = "x" -> x
      [] text = "1" -> Fin(1)
      [] text = "1/x" -> FDiv(Fin(1), x)
      [] text = "sin(x)" -> FSin(x)
      [] text = "abs(ln(x-1)/ln(x-2))" ->
            FAbs(FDiv(FLn(FSub(x, Fin(1))), FLn(FSub(x, Fin(2)))))

\* ------------------------------------------------------------ FunctionPlot

None == "None"

Crimson == <<220, 20, 60>>
RoyalBlue == <<65, 105, 225>>
ForestGreen == <<34, 139, 34>>
DarkOrange == <<255, 140, 0>>
BlueViolet == <<138, 43, 226>>

\* FunctionPlot::new
new(expression, color) ==
    [expression |-> expression,
     error_message |-> None,
     plot_points |-> <<>>,
     color |-> color]

\* The x of iteration i of the loop of FunctionPlot::update.
Candidate(x_min, x_max, i, num_points) ==
    FAdd(x_min, FDiv(FMul(FSub(x_max, x_min), Fin(i)), Fin(num_points)))

\* The points the loop of FunctionPlot::update pushes, in the order of i.
Pushed(text, x_min, x_max, num_points) ==
    LET cand == [j \in 1..(num_points + 1) |->
                    LET x == Candidate(x_min, x_max, j - 1, num_points)
                    IN <<x, Eval(text, x)>>]
    IN SelectSeq(cand, LAMBDA p : is_finite(p[2]))

\* update with the clear() of the parse-error branch left out.
update_stale(self, x_min, x_max, num_points) ==
    IF ~ParseOk(self.expression) THEN
        [self EXCEPT !.error_message = "Parse error"]
    ELSE IF ~BindOk(self.expression) THEN
        [self EXCEPT !.error_message = "Binding error", !.plot_points = <<>>]
    ELSE
        [self EXCEPT !.error_message = None,
                     !.plot_points =
                        Pushed(self.expression, x_min, x_max, num_points)]

\* update with the clear() before the loop left out.
update_append(self, x_min, x_max, num_points) ==
    IF ~ParseOk(self.expression) THEN
        [self EXCEPT !.error_message = "Parse error", !.plot_points = <<>>]
    ELSE IF ~BindOk(self.expression) THEN
        [self EXCEPT !.error_message = "Binding error", !.plot_points = <<>>]
    ELSE
        [self EXCEPT !.error_message = None,
                     !.plot_points =
                        self.plot_points
                            \o Pushed(self.expression, x_min, x_max, num_points)]

\* FunctionPlot::update
update(self, x_min, x_max, num_points) ==
    IF ~ParseOk(self.expression) THEN
        [self EXCEPT !.error_message = "Parse error", !.plot_points = <<>>]
    ELSE IF ~BindOk(self.expression) THEN
        [self EXCEPT !.error_message = "Binding error", !.plot_points = <<>>]
    ELSE
        LET cleared == [self EXCEPT !.error_message = None,
                                    !.plot_points = <<>>]
        IN [cleared EXCEPT !.plot_points =
                cleared.plot_points
                    \o Pushed(self.expression, x_min, x_max, num_points)]


\* --------------------------------------------------------------------- App

\* The texts of the model's domain fields: the two defaults of App::default,
\* a number between spaces, a text that is no number, and the three special
\* values str::parse::<f64> accepts.
DomainTexts == {"-10.0", "10.0", " 0 ", "abc", "NaN", "inf", "-inf"}

\* text.trim().parse::<f64>(): ok is false for Err(_).
parse(text) ==
    CASE text = "-10.0" -> [ok |-> TRUE, val |-> Fin(-10)]
      [] text = "10.0" -> [ok |-> TRUE, val |-> Fin(10)]
      [] text = " 0 " -> [ok |-> TRUE, val |-> Fin(0)]
      [] text = "NaN" -> [ok |-> TRUE, val |-> NaN]
      [] text = "inf" -> [ok |-> TRUE, val |-> PosInf]
      [] text = "-inf" -> [ok |-> TRUE, val |-> NegInf]
      [] OTHER -> [ok |-> FALSE, val |-> NaN]

\* App::default.  The field log is history, not program state: one entry per
\* call of update_functions since the operation under way began, holding the
\* domain error the call ended with and the arguments of the
\* FunctionPlot::update calls it made (with the y bounds it had parsed).
default ==
    [x_min_input |-> "-10.0",
     x_max_input |-> "10.0",
     y_min_input |-> "-10.0",
     y_max_input |-> "10.0",
     functions |-> <<new("abs(ln(x-1)/ln(x-2))", Crimson),
                     new("sin(x)", RoyalBlue)>>,
     num_points |-> DefaultNumPoints,
     auto_update |-> TRUE,
     domain_error |-> None,
     log |-> <<>>]

\* DomainError that also empties every curve.
DomainError_clearing(self, message) ==
    [self EXCEPT !.domain_error = message,
                 !.functions = [i \in DOMAIN self.functions |->
                                   [self.functions[i] EXCEPT
                                        !.plot_points = <<>>]],
                 !.log = Append(@, [error |-> message, invoked |-> <<>>])]

\* An early return of update_functions with a domain error.
DomainError(self, message) ==
    [self EXCEPT !.domain_error = message,
                 !.log = Append(@, [error |-> message, invoked |-> <<>>])]

\* The curves before the first one whose text does not parse or bind.
Healthy(fs) ==
    {i \in DOMAIN fs :
        \A j \in 1..(i - 1) :
            ParseOk(fs[j].expression) /\ BindOk(fs[j].expression)}

\* UpdateEach with a loop that ends at the first curve that fails.
UpdateEach_stopping(self, x_min, x_max, y_min, y_max) ==
    [self EXCEPT
        !.domain_error = None,
        !.functions = [i \in DOMAIN self.functions |->
                          IF i \in Healthy(self.functions)
                          THEN update(self.functions[i], x_min, x_max,
                                      self.num_points)
                          ELSE self.functions[i]],
        !.log = Append(@,
                  [error |-> None,
                   invoked |-> [i \in Healthy(self.functions) |->
                                   [x_min |-> x_min, x_max |-> x_max,
                                    y_min |-> y_min, y_max |-> y_max,
                                    num_points |-> self.num_points]]])]

\* UpdateEach that keeps, of the points sampled, those inside the y bounds.
UpdateEach_clipping(self, x_min, x_max, y_min, y_max) ==
    [self EXCEPT
        !.domain_error = None,
        !.functions = [i \in DOMAIN self.functions |->
                          LET f == update(self.functions[i], x_min, x_max,
                                          self.num_points)
                              Inside(q) == /\ ~FLt(q[2], y_min)
                                           /\ ~FLt(y_max, q[2])
                          IN [f EXCEPT !.plot_points = SelectSeq(@, Inside)]],
        !.log = Append(@,
                  [error |-> None,
                   invoked |-> [i \in DOMAIN self.functions |->
                                   [x_min |-> x_min, x_max |-> x_max,
                                    y_min |-> y_min, y_max |-> y_max,
                                    num_points |-> self.num_points]]])]

\* The loop of update_functions over the curves, after a valid domain.
UpdateEach(self, x_min, x_max, y_min, y_max) ==
    [self EXCEPT
        !.domain_error = None,
        !.functions = [i \in DOMAIN self.functions |->
                          update(self.functions[i], x_min, x_max,
                                 self.num_points)],
        !.log = Append(@,
                  [error |-> None,
                   invoked |-> [i \in DOMAIN self.functions |->
                                   [x_min |-> x_min, x_max |-> x_max,
                                    y_min |-> y_min, y_max |-> y_max,
                                    num_points |-> self.num_points]]])]

\* update_functions with > for >= in the two order tests.
update_functions_gt(self) ==
    LET x_min == parse(self.x_min_input)
        x_max == parse(self.x_max_input)
        y_min == parse(self.y_min_input)
        y_max == parse(self.y_max_input)
    IN  IF ~x_min.ok THEN DomainError(self, "Invalid x_min value")
        ELSE IF ~x_max.ok THEN DomainError(self, "Invalid x_max value")
        ELSE IF FLt(x_max.val, x_min.val) THEN
            DomainError(self, "x_min must be less than x_max")
        ELSE IF ~y_min.ok THEN DomainError(self, "Invalid y_min value")
        ELSE IF ~y_max.ok THEN DomainError(self, "Invalid y_max value")
        ELSE IF FLt(y_max.val, y_min.val) THEN
            DomainError(self, "y_min must be less than y_max")
        ELSE UpdateEach(self, x_min.val, x_max.val, y_min.val, y_max.val)

\* App::update_functions
update_functions(self) ==
    LET x_min == parse(self.x_min_input)
        x_max == parse(self.x_max_input)
        y_min == parse(self.y_min_input)
        y_max == parse(self.y_max_input)
    IN  IF ~x_min.ok THEN DomainError(self, "Invalid x_min value")
        ELSE IF ~x_max.ok THEN DomainError(self, "Invalid x_max value")
        ELSE IF FGe(x_min.val, x_max.val) THEN
            DomainError(self, "x_min must be less than x_max")
        ELSE IF ~y_min.ok THEN DomainError(self, "Invalid y_min value")
        ELSE IF ~y_max.ok THEN DomainError(self, "Invalid y_max value")
        ELSE IF FGe(y_min.val, y_max.val) THEN
            DomainError(self, "y_min must be less than y_max")
        ELSE UpdateEach(self, x_min.val, x_max.val, y_min.val, y_max.val)

\* ------------------------------------------------------------------- state

VARIABLES
    x_min_input, x_max_input, y_min_input, y_max_input,  \* App: domain texts
    functions,      \* App.functions
    num_points,     \* App.num_points
    auto_update,    \* App.auto_update
    domain_error,   \* App.domain_error
    log,            \* history: the update_functions calls of the last step
    input,          \* history: what the widgets reported in the last frame
    steps,          \* history: the number of steps taken
    plot,           \* a FunctionPlot on its own (SpecPlot)
    args            \* history: the arguments of the last update of plot

appVars == <<x_min_input, x_max_input, y_min_input, y_max_input, functions,
             num_points, auto_update, domain_error, log>>

plotVars == <<plot, args>>

vars == <<appVars, input, steps, plotVars>>

DomainFields == {"x_min_input", "x_max_input", "y_min_input", "y_max_input"}

\* The App the variables hold, with an empty history.
Self ==
    [x_min_input |-> x_min_input,
     x_max_input |-> x_max_input,
     y_min_input |-> y_min_input,
     y_max_input |-> y_max_input,
     functions |-> functions,
     num_points |-> num_points,
     auto_update |-> auto_update,
     domain_error |-> domain_error,
     log |-> <<>>]

\* The variables hold the App s.
Holds(s) ==
    /\ x_min_input = s.x_min_input
    /\ x_max_input = s.x_max_input
    /\ y_min_input = s.y_min_input
    /\ y_max_input = s.y_max_input
    /\ functions = s.functions
    /\ num_points = s.num_points
    /\ auto_update = s.auto_update
    /\ domain_error = s.domain_error
    /\ log = s.log

\* The variables hold the App s after the step.
Becomes(s) ==
    /\ x_min_input' = s.x_min_input
    /\ x_max_input' = s.x_max_input
    /\ y_min_input' = s.y_min_input
    /\ y_max_input' = s.y_max_input
    /\ functions' = s.functions
    /\ num_points' = s.num_points
    /\ auto_update' = s.auto_update
    /\ domain_error' = s.domain_error
    /\ log' = s.log

\* No update of plot was the last step.
NoArgs ==
    [called |-> FALSE, x_min |-> NaN, x_max |-> NaN, num_points |-> 0,
     held |-> 0, repeat |-> FALSE]


\* ------------------------------------------- <App as eframe::App>::update

\* The palette of Add Function.
default_colors == <<Crimson, RoyalBlue, ForestGreen, DarkOrange, BlueViolet>>

\* What the widgets report in one frame: the domain texts typed (field ->
\* new text), the value the slider was dragged to (at most one), whether the
\* checkbox and the Plot button were clicked, the expression texts typed
\* (curve -> new text), the Remove buttons clicked and whether Add Function
\* was clicked.  Curves are numbered from 1 (the source's index plus one).
NoInput ==
    [domain |-> <<>>,
     slider |-> {},
     checkbox |-> FALSE,
     plot |-> FALSE,
     expression |-> <<>>,
     remove |-> {},
     add |-> FALSE]

\* self.update_functions() when cond holds.
UpdateIf(cond, self) == IF cond THEN update_functions(self) ELSE self

\* A text_edit_singleline on a domain field: the field takes the typed text.
EditDomain(self, in, field) ==
    IF field \in DOMAIN in.domain
    THEN [self EXCEPT ![field] = in.domain[field]]
    ELSE self

\* changed() of the text_edit_singleline on a domain field.
Changed(self, in, field) ==
    field \in DOMAIN in.domain /\ in.domain[field] # self[field]

\* XDomainRow that refreshes on a change in manual mode too.
XDomainRow_always(self, in) ==
    UpdateIf(Changed(self, in, "x_min_input")
                 \/ Changed(self, in, "x_max_input"),
             EditDomain(EditDomain(self, in, "x_min_input"),
                        in, "x_max_input"))

\* The row of the x bounds: the two edits, then the refresh when one changed
\* and auto_update is set.
XDomainRow(self, in) ==
    UpdateIf((Changed(self, in, "x_min_input")
                 \/ Changed(self, in, "x_max_input")) /\ self.auto_update,
             EditDomain(EditDomain(self, in, "x_min_input"),
                        in, "x_max_input"))

\* The row of the y bounds.
YDomainRow(self, in) ==
    UpdateIf((Changed(self, in, "y_min_input")
                 \/ Changed(self, in, "y_max_input")) /\ self.auto_update,
             EditDomain(EditDomain(self, in, "y_min_input"),
                        in, "y_max_input"))

\* The Sample Points slider, over SliderMin..SliderMax.
SliderRow(self, in) ==
    LET changed == \E n \in in.slider : n # self.num_points
        moved == IF changed
                 THEN [self EXCEPT !.num_points =
                          CHOOSE n \in in.slider : n # self.num_points]
                 ELSE self
    IN UpdateIf(changed /\ self.auto_update, moved)

\* The Real-time update checkbox and, when it is off, the Plot button.
PlotRow(self, in) ==
    LET checked == IF in.checkbox
                   THEN [self EXCEPT !.auto_update = ~self.auto_update]
                   ELSE self
    IN UpdateIf(~checked.auto_update /\ in.plot, checked)

\* EditExpressions that also drops the points of an edited curve.
EditExpressions_clearing(self, in) ==
    [self EXCEPT !.functions =
        [i \in DOMAIN self.functions |->
            IF i \in DOMAIN in.expression
            THEN [self.functions[i] EXCEPT !.expression = in.expression[i],
                                           !.plot_points = <<>>]
            ELSE self.functions[i]]]

\* The text_edit_singleline of every curve.
EditExpressions(self, in) ==
    [self EXCEPT !.functions =
        [i \in DOMAIN self.functions |->
            IF i \in DOMAIN in.expression
            THEN [self.functions[i] EXCEPT !.expression = in.expression[i]]
            ELSE self.functions[i]]]

\* remove_indices: the Remove buttons exist, and can report a click, when
\* functions_len > 1.
remove_indices(self, in) ==
    IF Len(self.functions) > 1
    THEN in.remove \cap DOMAIN self.functions
    ELSE {}

\* Vec::remove(i)
Remove(fs, i) ==
    [j \in 1..(Len(fs) - 1) |-> IF j < i THEN fs[j] ELSE fs[j + 1]]

\* The removal loop without rev(): the lowest index first, the later
\* indices then naming the curves that moved into their places.
RECURSIVE RemoveFwd(_, _)
RemoveFwd(fs, indices) ==
    IF indices = {} THEN fs
    ELSE LET i == CHOOSE k \in indices : \A m \in indices : k <= m
         IN RemoveFwd(IF i \in DOMAIN fs THEN Remove(fs, i) ELSE fs,
                      indices \ {i})

\* for &i in remove_indices.iter().rev() { self.functions.remove(i); }
RECURSIVE RemoveRev(_, _)
RemoveRev(fs, indices) ==
    IF indices = {} THEN fs
    ELSE LET i == CHOOSE k \in indices : \A m \in indices : m <= k
         IN RemoveRev(Remove(fs, i), indices \ {i})

\* The Add Function button.
AddFunction(self, in) ==
    IF in.add
    THEN LET color == default_colors[
                          (Len(self.functions) % Len(default_colors)) + 1]
             pushed == [self EXCEPT !.functions =
                           Append(@, new("x", color))]
         IN UpdateIf(self.auto_update, pushed)
    ELSE self

\* The Functions group: the edits, the removals, then Add Function.
FunctionsList(self, in) ==
    LET edited == EditExpressions(self, in)
        removed == [edited EXCEPT !.functions =
                       RemoveRev(@, remove_indices(self, in))]
    IN AddFunction(removed, in)

\* Frame without the refresh at the start of the frame.
Frame_norefresh(self, in) ==
    LET s2 == XDomainRow(self, in)
        s3 == YDomainRow(s2, in)
        s4 == SliderRow(s3, in)
        s5 == PlotRow(s4, in)
    IN FunctionsList(s5, in)

\* <App as eframe::App>::update: one frame.
Frame(self, in) ==
    LET s1 == UpdateIf(self.auto_update, self)
        s2 == XDomainRow(s1, in)
        s3 == YDomainRow(s2, in)
        s4 == SliderRow(s3, in)
        s5 == PlotRow(s4, in)
    IN FunctionsList(s5, in)

\* ------------------------------------------------------ the application

Init ==
    /\ Holds(default)
    /\ input = NoInput
    /\ steps = 0
    /\ plot = new("x", Crimson)
    /\ args = NoArgs

\* A frame with the input in.
Step(in) ==
    /\ steps < MaxFrames
    /\ input' = in
    /\ steps' = steps + 1
    /\ UNCHANGED plotVars
    /\ LET after == Frame(Self, in) IN Becomes(after)

\* The texts typed into a domain field.
TypedDomainTexts == {"10.0", "abc", "NaN"}

\* The texts typed into the field of a curve.
TypedExprTexts == {"1/x", "sin(", "y"}

\* A slider whose range starts at 0.
SliderValues_unbounded == {0, SliderMax}

\* The values the slider is dragged to.
SliderValues == {SliderMin, SliderMax}

\* A frame without input.
FrameIdle ==
    /\ steps < MaxFrames
    /\ Step(NoInput)

\* A frame in which a domain field is edited.
FrameEditDomain(field, t) ==
    /\ Self[field] # t
    /\ Step([NoInput EXCEPT !.domain = field :> t])

\* A frame in which the slider is dragged.
FrameSlider(n) ==
    /\ n # num_points
    /\ Step([NoInput EXCEPT !.slider = {n}])

\* A frame in which the checkbox is clicked.
FrameCheckbox ==
    /\ steps < MaxFrames
    /\ Step([NoInput EXCEPT !.checkbox = TRUE])

\* A frame in which the Plot button, shown in manual mode, is clicked.
FramePlot ==
    /\ ~auto_update
    /\ Step([NoInput EXCEPT !.plot = TRUE])

\* A frame in which the text of curve i is edited.
FrameEditExpression(i, e) ==
    /\ functions[i].expression # e
    /\ Step([NoInput EXCEPT !.expression = i :> e])

\* A frame in which Remove buttons and/or Add Function report a click.
FrameClicks(remove, add) ==
    /\ remove # {} \/ add
    /\ remove # {} => Len(functions) > 1
    /\ add => Len(functions) - Cardinality(remove) < MaxCurves
    /\ Step([NoInput EXCEPT !.remove = remove, !.add = add])

Next ==
    \/ FrameIdle
    \/ \E field \in DomainFields, t \in TypedDomainTexts :
            FrameEditDomain(field, t)
    \/ \E n \in SliderValues : FrameSlider(n)
    \/ FrameCheckbox
    \/ FramePlot
    \/ \E i \in DOMAIN functions, e \in TypedExprTexts :
            FrameEditExpression(i, e)
    \/ \E remove \in SUBSET DOMAIN functions, add \in BOOLEAN :
            FrameClicks(remove, add)

Spec == Init /\ [][Next]_vars

\* if self.auto_update { ctx.request_repaint(); }: the frame that ended asked
\* for another frame.
RequestRepaint == auto_update

\* A frame takes place: every step of Next is one call of update and counts
\* one frame, and a frame without input (FrameIdle) can always take place.
Tick == steps < MaxFrames /\ steps' = steps + 1

\* The application with the frames ctx.request_repaint() asks for: a frame
\* that was requested takes place.
SpecLive == Init /\ [][Next]_vars /\ WF_steps(RequestRepaint /\ Tick)

\* ------------------------------------- FunctionPlot::update on its own

\* The values parse gives the texts of the model.
F64Values == {parse(t).val : t \in {u \in DomainTexts : parse(u).ok}}

\* A curve as FunctionPlot::new leaves it, with any text of the model.
InitPlot ==
    /\ Holds(default)
    /\ input = NoInput
    /\ steps = 0
    /\ plot \in {new(e, Crimson) : e \in ExprTexts}
    /\ args = NoArgs

\* The text field of the curve is edited to e.
PlotEdit(e) ==
    /\ e # plot.expression
    /\ plot' = [plot EXCEPT !.expression = e]
    /\ args' = NoArgs
    /\ UNCHANGED <<appVars, input, steps>>

\* plot.update(x_min, x_max, n), with bounds that passed the x_min >= x_max
\* test of update_functions.  args keeps the arguments, the number of points
\* the curve held before the call, and whether the call repeats the call of
\* the step before with the same text and arguments.
PlotUpdate(x_min, x_max, n) ==
    /\ ~FGe(x_min, x_max)
    /\ plot' = update(plot, x_min, x_max, n)
    /\ args' = [called |-> TRUE, x_min |-> x_min, x_max |-> x_max,
                num_points |-> n,
                held |-> Len(plot.plot_points),
                repeat |-> /\ args.called
                           /\ args.x_min = x_min
                           /\ args.x_max = x_max
                           /\ args.num_points = n]
    /\ UNCHANGED <<appVars, input, steps>>

NextPlot ==
    \/ \E e \in ExprTexts : PlotEdit(e)
    \/ \E x_min \in F64Values, x_max \in F64Values, n \in 0..MaxN :
            PlotUpdate(x_min, x_max, n)

SpecPlot == InitPlot /\ [][NextPlot]_vars


\* ------------------------------------------------- claims on SpecPlot

\* The sampler as the specification words it: the candidates
\* x_i = x_min + (x_max - x_min) * i / n for i = from..n in this order, each
\* kept with its y = f(x_i) when that y is finite.
RECURSIVE Sampled(_, _, _, _, _)
Sampled(text, x_min, x_max, n, from) ==
    IF from > n THEN <<>>
    ELSE LET x == Candidate(x_min, x_max, from, n)
             y == Eval(text, x)
         IN (IF is_finite(y) THEN <<<<x, y>>>> ELSE <<>>)
                \o Sampled(text, x_min, x_max, n, from + 1)

\* The last step was an update of plot that reached the sampling loop.
SampledCall ==
    /\ args.called
    /\ ParseOk(plot.expression)
    /\ BindOk(plot.expression)

\* C4: after FunctionPlot::update, a text that does not parse leaves the
\* parse error and no points, a text that does not bind leaves the binding
\* error and no points, and any other text leaves no error and exactly the
\* sampler's output for the text, the x-domain and n of the call.
C4_ThreeOutcomes ==
    args.called =>
        IF ~ParseOk(plot.expression) THEN
            /\ plot.error_message = "Parse error"
            /\ plot.plot_points = <<>>
        ELSE IF ~BindOk(plot.expression) THEN
            /\ plot.error_message = "Binding error"
            /\ plot.plot_points = <<>>
        ELSE
            /\ plot.error_message = None
            /\ plot.plot_points =
                  Sampled(plot.expression, args.x_min, args.x_max,
                          args.num_points, 0)

\* A failed refresh of a curve that held points has emptied it.
C4_Witness ==
    /\ args.called
    /\ is_finite(args.x_min)
    /\ is_finite(args.x_max)
    /\ args.num_points >= 1
    /\ args.held > 1
    /\ plot.error_message # None
    /\ plot.plot_points = <<>>

\* a <= b on f64: false when either side is NaN.
FLe(a, b) == FGe(b, a)

\* C6 as stated: for n >= 1 and x_min < x_max the output is the subsequence
\* of the n + 1 candidates with a finite y, the first candidate is x_min and
\* the last x_max, the length is at most n + 1, the x-values are
\* non-decreasing and every y is finite.
C6_SamplerOutput ==
    (SampledCall /\ args.num_points >= 1 /\ FLt(args.x_min, args.x_max)) =>
        LET n == args.num_points
            pts == plot.plot_points
        IN  /\ pts = Sampled(plot.expression, args.x_min, args.x_max, n, 0)
            /\ Candidate(args.x_min, args.x_max, 0, n) = args.x_min
            /\ Candidate(args.x_min, args.x_max, n, n) = args.x_max
            /\ Len(pts) <= n + 1
            /\ \A j \in 1..(Len(pts) - 1) : FLe(pts[j][1], pts[j + 1][1])
            /\ \A j \in 1..Len(pts) : is_finite(pts[j][2])

\* C7 as stated: update(x_min, x_max, 0) stores the one point
\* (x_min, f(x_min)) when f(x_min) is finite, and nothing otherwise.
C7_ZeroSamples ==
    (SampledCall /\ args.num_points = 0 /\ FLt(args.x_min, args.x_max)) =>
        LET y == Eval(plot.expression, args.x_min)
        IN plot.plot_points =
              IF is_finite(y) THEN <<<<args.x_min, y>>>> ELSE <<>>

\* C8: an update leaves what it would leave in a curve fresh from
\* FunctionPlot::new with the same text, whatever the curve held; and an
\* update that repeats the update of the step before, with the same text
\* and arguments, changes neither plot_points nor error_message.
C8_Idempotent ==
    [][args'.called =>
         /\ plot' = update(new(plot.expression, plot.color),
                           args'.x_min, args'.x_max, args'.num_points)
         /\ args'.repeat =>
               /\ plot'.plot_points = plot.plot_points
               /\ plot'.error_message = plot.error_message]_vars

\* The same update ran twice in a row on a curve that holds points.
C8_Witness ==
    /\ args.called
    /\ args.repeat
    /\ is_finite(args.x_min)
    /\ is_finite(args.x_max)
    /\ args.num_points >= 1
    /\ args.held > 1
    /\ Len(plot.plot_points) = args.held


\* ------------------------------------- App::update_functions on its own

\* The App of App::default with a sample count of 1..MaxN: update_functions
\* reads whatever num_points holds.
InitRefresh ==
    /\ \E n \in 1..MaxN : Holds([default EXCEPT !.num_points = n])
    /\ input = NoInput
    /\ steps = 0
    /\ plot = new("x", Crimson)
    /\ args = NoArgs

\* One of the four domain texts is edited to t.
SetDomain(field, t) ==
    /\ steps < MaxEdits
    /\ Self[field] # t
    /\ Becomes([Self EXCEPT ![field] = t])
    /\ steps' = steps + 1
    /\ UNCHANGED <<input, plotVars>>

\* The text of curve i is edited to e.
SetExpression(i, e) ==
    /\ steps < MaxEdits
    /\ functions[i].expression # e
    /\ Becomes([Self EXCEPT !.functions[i].expression = e])
    /\ steps' = steps + 1
    /\ UNCHANGED <<input, plotVars>>

\* self.update_functions()
Refresh ==
    /\ Becomes(update_functions(Self))
    /\ UNCHANGED <<input, steps, plotVars>>

NextRefresh ==
    \/ \E field \in DomainFields, t \in DomainTexts : SetDomain(field, t)
    \/ \E i \in DOMAIN functions, e \in ExprTexts : SetExpression(i, e)
    \/ Refresh

SpecRefresh == InitRefresh /\ [][NextRefresh]_vars


\* ----------------------------------------------- claims on SpecRefresh

\* The step under way was (the step ended with) a call of update_functions.
Refreshed == log # <<>>

\* A bound text does not parse, or parsed bounds are in the wrong order, as
\* the source tests it (>=).
XDomainBad ==
    \/ ~parse(x_min_input).ok
    \/ ~parse(x_max_input).ok
    \/ FGe(parse(x_min_input).val, parse(x_max_input).val)

YDomainBad ==
    \/ ~parse(y_min_input).ok
    \/ ~parse(y_max_input).ok
    \/ FGe(parse(y_min_input).val, parse(y_max_input).val)

\* C2: a call of update_functions on a bad domain ends with domain_error
\* set, and a call that ends with domain_error set leaves every curve (its
\* plot_points and its error_message) as it was before the call.
C2_DomainErrorGates ==
    [][Refreshed' =>
         /\ (XDomainBad \/ YDomainBad) => domain_error' # None
         /\ domain_error' # None => functions' = functions]_vars

\* A refresh failed on the domain and the curves still hold their points.
C2_Witness ==
    /\ Refreshed
    /\ domain_error # None
    /\ \A i \in DOMAIN functions : functions[i].plot_points # <<>>

\* C3 as stated: update_functions calls FunctionPlot::update only with
\* x_min < x_max and y_min < y_max, whatever the bound texts parse to.
C3_StrictOrder ==
    \A c \in DOMAIN log : \A i \in DOMAIN log[c].invoked :
        /\ FLt(log[c].invoked[i].x_min, log[c].invoked[i].x_max)
        /\ FLt(log[c].invoked[i].y_min, log[c].invoked[i].y_max)

\* The curves fs refreshed one after the other in the order given.
RECURSIVE InOrder(_, _, _, _, _)
InOrder(fs, order, x_min, x_max, n) ==
    IF order = <<>> THEN fs
    ELSE InOrder([fs EXCEPT ![Head(order)] = update(@, x_min, x_max, n)],
                 Tail(order), x_min, x_max, n)

\* The orders in which the curves fs can be visited.
Orders(fs) ==
    {o \in [DOMAIN fs -> DOMAIN fs] : \A i \in DOMAIN fs : \E j \in DOMAIN fs : o[j] = i}

\* C5: a call of update_functions on a valid domain calls update for every
\* curve of the list, leaves in each curve what update leaves in a fresh
\* curve with that curve's text (so nothing of another curve, and no failure
\* of another curve, enters it), and leaves what refreshing the curves in
\* any other order would leave.
C5_LocalErrors ==
    [][(Refreshed' /\ domain_error' = None) =>
         LET x_min == parse(x_min_input).val
             x_max == parse(x_max_input).val
         IN  /\ DOMAIN log'[1].invoked = DOMAIN functions
             /\ DOMAIN functions' = DOMAIN functions
             /\ \A i \in DOMAIN functions :
                    functions'[i] =
                        update(new(functions[i].expression,
                                   functions[i].color),
                               x_min, x_max, num_points)
             /\ \A o \in Orders(functions) :
                    functions' =
                        InOrder(functions, o, x_min, x_max, num_points)]_vars

\* A refresh left an error in the first curve and points in the second.
C5_Witness ==
    /\ Refreshed
    /\ domain_error = None
    /\ Len(functions) = 2
    /\ functions[1].error_message # None
    /\ functions[2].error_message = None
    /\ functions[2].plot_points # <<>>

\* The domain error the six checks give the four texts, in their order.
ExpectedDomainError ==
    IF ~parse(x_min_input).ok THEN "Invalid x_min value"
    ELSE IF ~parse(x_max_input).ok THEN "Invalid x_max value"
    ELSE IF FGe(parse(x_min_input).val, parse(x_max_input).val)
        THEN "x_min must be less than x_max"
    ELSE IF ~parse(y_min_input).ok THEN "Invalid y_min value"
    ELSE IF ~parse(y_max_input).ok THEN "Invalid y_max value"
    ELSE IF FGe(parse(y_min_input).val, parse(y_max_input).val)
        THEN "y_min must be less than y_max"
    ELSE None

\* C10: after update_functions, domain_error names the first of the six
\* checks that fails (x_min text, x_max text, x order, y_min text, y_max
\* text, y order), and is None exactly when all six pass, whatever it held
\* before the call.
C10_DomainErrorNamesBound ==
    Refreshed =>
        /\ domain_error = ExpectedDomainError
        /\ domain_error = None <=> ~(XDomainBad \/ YDomainBad)

\* The validation got as far as the last check and failed there.
C10_Witness ==
    /\ Refreshed
    /\ domain_error = "y_min must be less than y_max"
    /\ parse(y_min_input).val = parse(y_max_input).val


\* The App with the y bound texts replaced by y_min_text and y_max_text.
WithYDomain(y_min_text, y_max_text) ==
    [Self EXCEPT !.y_min_input = y_min_text, !.y_max_input = y_max_text]

C1_NeverEmpty == Len(functions) >= 1

\* C9 as stated: when Add Function creates a curve while fewer curves exist
\* than the palette has colours, the colour of the new curve (the last of
\* the list) differs from the colour of every other curve of the list.
C9_NextUnusedColour ==
    (input.add /\ Len(functions) - 1 < Len(default_colors)) =>
        \A i \in 1..(Len(functions) - 1) :
            functions[i].color # functions[Len(functions)].color


\* The curves of fs whose index is not in removed, from index i on, in the
\* order of fs.
RECURSIVE KeptFrom(_, _, _)
KeptFrom(fs, removed, i) ==
    IF i > Len(fs) THEN <<>>
    ELSE (IF i \in removed THEN <<>> ELSE <<fs[i]>>)
             \o KeptFrom(fs, removed, i + 1)

\* The curves of the list that survive the frame whose input is in: those
\* whose Remove button did not report a click.
Survivors(in) ==
    KeptFrom(functions,
             IF Len(functions) > 1 THEN in.remove ELSE {},
             1)

\* The frame under way made no call of update_functions that got past the
\* domain checks: no refresh of the curves took place.
NoRefresh == \A c \in DOMAIN log : log[c].error # None

\* C11: plot_points and error_message of a curve are changed by the refresh
\* only, and its colour by nothing: a frame in which no refresh of the curves
\* takes place (whatever was edited, toggled, added or removed) leaves the
\* plot_points and error_message of every surviving curve as they were, and
\* every frame leaves the colour of every surviving curve as it was.
C11_OnlyRefreshMutates ==
    [][LET kept == Survivors(input')
       IN  /\ Len(functions') >= Len(kept)
           /\ \A j \in DOMAIN kept :
                  /\ functions'[j].color = kept[j].color
                  /\ NoRefresh' =>
                        /\ functions'[j].plot_points = kept[j].plot_points
                        /\ functions'[j].error_message
                              = kept[j].error_message]_vars

\* The text of a curve that holds points was edited in a frame without
\* refresh (manual mode, or a domain error), and the points are those of the
\* text before the edit: the curve holds points although its text does not
\* parse or bind.
C11_Witness ==
    /\ steps = MaxFrames
    /\ input.expression # <<>>
    /\ NoRefresh
    /\ \E i \in DOMAIN input.expression :
          /\ i \in DOMAIN functions
          /\ functions[i].expression = input.expression[i]
          /\ ~(ParseOk(functions[i].expression)
                  /\ BindOk(functions[i].expression))
          /\ functions[i].plot_points # <<>>
          /\ functions[i].error_message = None


\* C13: in manual mode the refresh runs on the Plot button only.  A frame
\* that starts and ends with auto_update false and in which the Plot button
\* reports no click makes no call of update_functions: domain_error and the
\* plot_points and error_message of every surviving curve are as before the
\* frame, whatever domain text, expression text or slider value was edited
\* and whether or not Add Function was clicked.
C13_ManualOnlyOnPlot ==
    [][(~auto_update /\ ~auto_update' /\ steps' = steps + 1
            /\ ~input'.plot) =>
         LET kept == Survivors(input')
         IN  /\ log' = <<>>
             /\ domain_error' = domain_error
             /\ Len(functions') >= Len(kept)
             /\ \A j \in DOMAIN kept :
                    /\ functions'[j].plot_points = kept[j].plot_points
                    /\ functions'[j].error_message
                          = kept[j].error_message]_vars

\* A bound text was edited to an unparsable text in manual mode: no domain
\* error is shown and the curves hold the points of the refresh before.
C13_Witness ==
    /\ ~auto_update
    /\ steps = MaxFrames
    /\ \E field \in DOMAIN input.domain : ~parse(Self[field]).ok
    /\ log = <<>>
    /\ domain_error = None
    /\ \A i \in DOMAIN functions : functions[i].plot_points # <<>>


\* The arguments of the last refresh of the frame under way that passed the
\* domain checks.
LastRefresh ==
    LET passed == {c \in DOMAIN log : log[c].error = None}
        last == CHOOSE c \in passed : \A d \in passed : d <= c
    IN log[last].invoked[1]

\* C14: in continuous mode a change shows within one tick.  A frame that
\* starts with auto_update set and valid domain texts begins with a refresh
\* of the whole list, so at its end (where the plot is drawn) every surviving
\* curve holds the plot_points and error_message that update gives the text
\* the curve had when the frame began, the edits of the frame before
\* included; and while auto_update is set the frame that ended has requested
\* a repaint, so the next frame takes place (up to MaxFrames frames).
C14_ReflectedNextFrame ==
    /\ [][(auto_update /\ steps' = steps + 1
                /\ ~XDomainBad /\ ~YDomainBad) =>
             /\ log' # <<>>
             /\ log'[1].error = None
             /\ DOMAIN log'[1].invoked = DOMAIN functions
             /\ LET kept == Survivors(input')
                     a == LastRefresh'
                 IN \A j \in DOMAIN kept :
                        LET fresh == update(new(kept[j].expression,
                                                kept[j].color),
                                            a.x_min, a.x_max, a.num_points)
                        IN /\ functions'[j].plot_points = fresh.plot_points
                           /\ functions'[j].error_message
                                 = fresh.error_message]_vars
    /\ \A k \in 0..(MaxFrames - 1) :
           (RequestRepaint /\ steps = k) ~> (steps = k + 1)

\* The text of the first curve was edited in the first frame to one that
\* does not parse; the second frame, without input, shows the parse error
\* and no points for it.
C14_Witness ==
    /\ steps = 2
    /\ input = NoInput
    /\ auto_update
    /\ domain_error = None
    /\ functions[1].expression = "sin("
    /\ functions[1].error_message # None
    /\ functions[1].plot_points = <<>>
    /\ functions[2].plot_points # <<>>


\* C15: in every state of the application, a curve whose error_message is
\* set holds no points.
C15_ErrorMeansNoPoints ==
    \A i \in DOMAIN functions :
        functions[i].error_message # None =>
            functions[i].plot_points = <<>>

\* The second curve, which held the points of sin(x) after the first frame,
\* had its text edited to one that does not bind and was refreshed: it shows
\* the error and no points, while the first curve holds points.
C15_Witness ==
    /\ steps = 2
    /\ Len(functions) = 2
    /\ functions[2].expression = "y"
    /\ functions[2].error_message # None
    /\ functions[2].plot_points = <<>>
    /\ functions[1].error_message = None
    /\ functions[1].plot_points # <<>>


\* C16: in every state App.num_points lies in SliderMin..SliderMax, and
\* every call of FunctionPlot::update the application made had a sample
\* count in that range, so the divisor num_points of the sampler was not 0.
C16_NumPointsInRange ==
    /\ num_points \in SliderMin..SliderMax
    /\ \A c \in DOMAIN log : \A i \in DOMAIN log[c].invoked :
           /\ log[c].invoked[i].num_points \in SliderMin..SliderMax
           /\ log[c].invoked[i].num_points # 0

\* The slider was dragged to the lower end of its range and the refresh of
\* that frame sampled with it.
C16_Witness ==
    /\ input.slider = {SliderMin}
    /\ num_points = SliderMin
    /\ \E c \in DOMAIN log : \E i \in DOMAIN log[c].invoked :
           log[c].invoked[i].num_points = SliderMin


\* C17: the removal removes the clicked curves and nothing else.  In a frame
\* in which Remove buttons report clicks, the list after the removal loop is
\* the list the buttons were drawn from (the list after the refresh at the
\* start of the frame) without the curves clicked: as many curves fewer as
\* buttons were clicked, the others in their order with expression,
\* plot_points, error_message and colour as they were.  What the frame does
\* after the loop is Add Function on that list.
C17_RemovesExactlyClicked ==
    [][(steps' = steps + 1 /\ input'.remove # {}) =>
         LET drawn == UpdateIf(auto_update, Self)
             kept == KeptFrom(drawn.functions, input'.remove, 1)
         IN  /\ Len(kept) = Len(functions) - Cardinality(input'.remove)
             /\ \A j \in DOMAIN kept : functions'[j].color = kept[j].color
             /\ functions' =
                   AddFunction([drawn EXCEPT !.functions = kept],
                               input').functions]_vars

\* Of three curves the first two were removed in one frame: the list holds
\* the third, the curve Add Function created, with its points.
C17_Witness ==
    /\ input.remove = {1, 2}
    /\ ~input.add
    /\ Len(functions) = 1
    /\ functions[1].color = ForestGreen
    /\ functions[1].expression = "x"
    /\ functions[1].plot_points # <<>>

=============================================================================
